---- MODULE Spec2Model ----
(***************************************************************************)
(* Model of app.py, a Streamlit chat front-end for Google Gemini.          *)
(*                                                                         *)
(* Streamlit re-executes the whole script on every user interaction (a     *)
(* "cycle").  st.session_state survives between cycles; widget values are  *)
(* the inputs of a cycle.  One cycle is modelled as the steps               *)
(*   idle -> chat -> stream -> idle, the first of which runs the script     *)
(*   (and the rerun of the Clear button) up to st.chat_input.               *)
(* Text is a sequence of tokens, so that concatenation, prefixes and        *)
(* containment are computed rather than assumed.                            *)
(***************************************************************************)
EXTENDS Integers, Sequences, FiniteSets, TLC

\* ---------------------------------------------------------------- bounds
\* Longest transcript a cycle may still add an exchange to.
MaxMsgs == 4
\* Longest stream of chunks the remote service yields in one send.
MaxFrags == 2

\* ------------------------------------------------------- input alphabets
\* "" is the empty key field; "k1" stands for any non-empty key.
ApiKeys == {"", "k1"}
\* values of available_models
Models == {"gemini-1.5-flash-latest", "gemini-1.0-pro"}
DefaultModel == "gemini-1.5-flash-latest"
\* system prompt text area: left empty, or a persona
Personas == {"", "Sparky"}
\* slider value in hundredths (0.0 .. 1.0 step 0.05)
DefaultTemperature == 70
Temperatures == {DefaultTemperature, 100}
DefaultMaxTokens == 2048
TokenLimits == {DefaultMaxTokens, 50}
\* what the user may type into st.chat_input (never empty)
Prompts == {<<"hi">>}
\* the text of a well-formed chunk
Frags == {<<"Hel">>, <<"lo">>}
\* str(e) of an exception raised by the client library
Descs == {<<"policy X">>}
\* exception classes, as the except clauses tell them apart
Kinds == {"BlockedPromptException", "StopCandidateException", "Exception"}

NoneStr == "None"
CURSOR == <<"|">>

VARIABLES
    env_api_key,            \* os.getenv("GOOGLE_API_KEY") or ""
    api_key_input,          \* widget values of the running / last cycle
    MODEL_NAME,
    system_prompt,
    temperature,
    max_tokens,
    clear_clicked,          \* st.button("Clear Chat History") of this cycle
    user_prompt,            \* st.chat_input of this cycle, <<>> when None
    ss_keys,                \* keys present in st.session_state
    ss_api_key,             \* st.session_state.api_key
    ss_model_name,          \* st.session_state.model_name
    ss_system_prompt,       \* st.session_state.system_prompt
    messages,               \* st.session_state.messages
    chat_session,           \* st.session_state.chat_session: <<>> is None
    pc,                     \* position of the script
    fields_differ,          \* a tracked field differed at line 108-110
    init_calls,             \* calls of initialize_chat_session this cycle
    send_calls,             \* calls of chat_session.send_message this cycle
    notices,                \* st.error / st.warning / st.toast this cycle
    full_response_content,  \* accumulator of the streaming loop
    displayed,              \* values given to message_placeholder.markdown
    yielded,                \* texts of the chunks the stream has yielded
    raised,                 \* <<kind, str(e)>> raised by the remote call
    escaped,                \* an exception left the try statement
    cleared,                \* history: Clear discarded a live session and the
                            \* re-initialization block has not run since
    session_history         \* turns given to the chat object by send_message
                            \* and returned by it in a stream that ended
                            \* without an exception (roles named as in
                            \* messages); empty when it is created

vars == <<env_api_key, api_key_input, MODEL_NAME, system_prompt, temperature,
          max_tokens, clear_clicked, user_prompt, ss_keys, ss_api_key,
          ss_model_name, ss_system_prompt, messages, chat_session, pc,
          fields_differ, init_calls, send_calls, notices,
          full_response_content, displayed, yielded, raised, escaped,
          cleared, session_history>>

widgets == <<api_key_input, MODEL_NAME, system_prompt, temperature, max_tokens>>
stored == <<ss_api_key, ss_model_name, ss_system_prompt>>
cycle_locals == <<fields_differ, init_calls, send_calls, notices,
                  full_response_content, displayed, yielded, raised, escaped>>

\* ------------------------------------------------------------ text helpers
RECURSIVE Concat(_)
Concat(ss) == IF ss = <<>> THEN <<>> ELSE Head(ss) \o Concat(Tail(ss))

IsPrefix(p, s) == Len(p) <= Len(s) /\ SubSeq(s, 1, Len(p)) = p

Contains(s, sub) ==
    \E i \in 0..(Len(s) - Len(sub)) : SubSeq(s, i + 1, i + Len(sub)) = sub

Last(s) == s[Len(s)]

\* str.strip(): a text of blanks only becomes the empty text
Strip(s) == IF s = " " THEN "" ELSE s

Message(role, content) == [role |-> role, content |-> content]

\* ------------------------------------------------------------------- Init
Init ==
    /\ env_api_key \in {"", "k1"}
    /\ api_key_input = env_api_key
    /\ MODEL_NAME = DefaultModel
    /\ system_prompt = ""
    /\ temperature = DefaultTemperature
    /\ max_tokens = DefaultMaxTokens
    /\ clear_clicked = FALSE
    /\ user_prompt = <<>>
    /\ ss_keys = {}
    /\ ss_api_key = ""
    /\ ss_model_name = DefaultModel
    /\ ss_system_prompt = ""
    /\ messages = <<>>
    /\ chat_session = <<>>
    /\ pc = "idle"
    /\ fields_differ = FALSE
    /\ init_calls = 0
    /\ send_calls = 0
    /\ notices = {}
    /\ full_response_content = <<>>
    /\ displayed = <<>>
    /\ yielded = <<>>
    /\ raised = <<>>
    /\ escaped = FALSE
    /\ cleared = FALSE
    /\ session_history = <<>>

\* ------------------------------------------------ sidebar, lines 43-87
\* The Clear Chat History button handler (lines 84-86), up to st.rerun():
\* the session state it leaves for the execution that st.rerun() starts.
ClearPressed(keys, msgs, session) ==
    [keys |-> keys \cup {"messages", "chat_session"},
     messages |-> <<>>,
     chat_session |-> <<>>]

\* The button was not pressed.
ClearNotPressed(keys, msgs, session) ==
    [keys |-> keys, messages |-> msgs, chat_session |-> session]

\* ------------------------------------- session state, lines 92-144
\* Value of a session-state field after the "not in st.session_state"
\* defaults of lines 92-103.
Defaulted(keys, key, current, input) == IF key \in keys THEN current ELSE input

\* A tracked field differs from the stored one (lines 108-110).
TrackedFieldDiffers(sk, sm, sp, k, m, p) == sk # k \/ sm # m \/ sp # p

\* Fault variant of NeedsReinit: re-initializes in every cycle.
NeedsReinitAlways(keys, sk, sm, sp, k, m, p) == TRUE

\* Fault variant of NeedsReinit: an unset session is initialized again.
NeedsReinitWhenUnset(keys, sk, sm, sp, k, m, p) ==
    \/ "chat_session" \notin keys
    \/ chat_session = <<>>
    \/ TrackedFieldDiffers(sk, sm, sp, k, m, p)

\* The condition of the if statement of lines 107-110.
NeedsReinit(keys, sk, sm, sp, k, m, p) ==
    "chat_session" \notin keys \/ TrackedFieldDiffers(sk, sm, sp, k, m, p)

\* generation_config of lines 124-127
GenerationConfig(t, n) == [temperature |-> t, max_output_tokens |-> n]

\* system_instruction argument of line 131
SystemInstructionArg(p) == IF Strip(p) # "" THEN p ELSE NoneStr

\* initialize_chat_session: the chat object, or None (<<>>) when the client
\* library raised (ok = FALSE).
initialize_chat_session(api_key, model_name, system_instruction, generation_config, ok) ==
    IF ok
      THEN << [api_key |-> api_key,
               model_name |-> model_name,
               system_instruction |->
                   IF system_instruction \notin {"", NoneStr}
                     THEN system_instruction ELSE NoneStr,
               generation_config |-> generation_config] >>
      ELSE <<>>

\* Fault variant of MessagesAfterInit: line 137 is missing.
MessagesAfterInitKeeping(msgs, session) == msgs

\* Lines 135-140: the transcript after an initialization attempt.
MessagesAfterInit(msgs, session) == IF session # <<>> THEN <<>> ELSE msgs

\* Lines 135-140: what the attempt reports.
InitNotices(session) ==
    IF session # <<>> THEN {"toast_initialized"}
                      ELSE {"init_error", "init_failed"}

\* Lines 143-144
MissingKeyNotices(env) == IF env = "" THEN {"missing_key_warning"} ELSE {}

\* Lines 92-144 on the session state st (keys, messages, chat_session) and
\* the widget values k, m, p, t, n: the session state and the reports they
\* leave.  ok is the outcome of the client library inside
\* initialize_chat_session.
SessionManager(st, k, m, p, t, n, ok) ==
    LET sk == Defaulted(st.keys, "api_key", ss_api_key, k)
        sm == Defaulted(st.keys, "model_name", ss_model_name, m)
        sp == Defaulted(st.keys, "system_prompt", ss_system_prompt, p)
        msgs == Defaulted(st.keys, "messages", st.messages, <<>>)
        reinit == NeedsReinit(st.keys, sk, sm, sp, k, m, p)
        created == initialize_chat_session(k, m, SystemInstructionArg(p),
                                           GenerationConfig(t, n), ok)
    IN  [ api_key |-> IF reinit THEN k ELSE sk,
          model_name |-> IF reinit THEN m ELSE sm,
          system_prompt |-> IF reinit THEN p ELSE sp,
          chat_session |-> IF reinit
                             THEN (IF k # "" THEN created ELSE <<>>)
                             ELSE st.chat_session,
          messages |-> IF reinit /\ k # ""
                         THEN MessagesAfterInit(msgs, created)
                         ELSE msgs,
          init_calls |-> IF reinit /\ k # "" THEN 1 ELSE 0,
          notices |-> IF reinit
                        THEN (IF k # "" THEN InitNotices(created)
                                        ELSE MissingKeyNotices(env_api_key))
                        ELSE {},
          fields_differ |-> TrackedFieldDiffers(sk, sm, sp, k, m, p),
          reinit |-> reinit ]

\* ------------------------------------------------------ one cycle
\* One execution of the script from its first line to st.chat_input (line
\* 153), with the widget values k, m, p, t, n, the button state and the
\* submitted chat text (<<>> when there is none).  A pressed button restarts
\* the script (st.rerun) with the button released and the chat input gone.
Cycle(k, m, p, t, n, clear, text, ok) ==
    LET st == IF clear THEN ClearPressed(ss_keys, messages, chat_session)
                       ELSE ClearNotPressed(ss_keys, messages, chat_session)
        r == SessionManager(st, k, m, p, t, n, ok)
        prompt == IF clear THEN <<>> ELSE text
    IN  /\ pc = "idle"
        /\ (ok \/ r.init_calls = 1)
        /\ api_key_input' = k
        /\ MODEL_NAME' = m
        /\ system_prompt' = p
        /\ temperature' = t
        /\ max_tokens' = n
        /\ clear_clicked' = clear
        /\ user_prompt' = prompt
        /\ ss_keys' = {"api_key", "model_name", "system_prompt", "messages",
                       "chat_session"}
        /\ ss_api_key' = r.api_key
        /\ ss_model_name' = r.model_name
        /\ ss_system_prompt' = r.system_prompt
        /\ chat_session' = r.chat_session
        /\ messages' = r.messages
        /\ init_calls' = r.init_calls
        /\ notices' = r.notices
        /\ fields_differ' = r.fields_differ
        /\ cleared' = (((clear /\ chat_session # <<>>) \/ cleared) /\ ~r.reinit)
        /\ session_history' = IF clear \/ r.reinit THEN <<>>
                                                   ELSE session_history
        /\ send_calls' = 0
        /\ full_response_content' = <<>>
        /\ displayed' = <<>>
        /\ yielded' = <<>>
        /\ raised' = <<>>
        /\ escaped' = FALSE
        /\ pc' = IF prompt = <<>> THEN "idle" ELSE "chat"
        /\ UNCHANGED env_api_key

\* The first execution of the script: every widget shows its default.
PageLoad(ok) ==
    /\ ss_keys = {}
    /\ Cycle(api_key_input, MODEL_NAME, system_prompt, temperature,
             max_tokens, FALSE, <<>>, ok)

\* The values the i-th sidebar widget can take.
WidgetValues(i) ==
    CASE i = 1 -> ApiKeys
      [] i = 2 -> Models
      [] i = 3 -> Personas
      [] i = 4 -> Temperatures
      [] i = 5 -> TokenLimits

\* The user sets the i-th sidebar widget to v (possibly the value it has).
\* Streamlit starts a new execution at every widget interaction, so an
\* execution sees at most one widget value that differs from the previous
\* execution's.
EditWidgets(i, v, ok) ==
    LET w == [widgets EXCEPT ![i] = v]
    IN  /\ ss_keys # {}
        /\ Cycle(w[1], w[2], w[3], w[4], w[5], FALSE, <<>>, ok)

\* The user presses Clear Chat History.
ClearChatHistory(ok) ==
    /\ ss_keys # {}
    /\ Cycle(api_key_input, MODEL_NAME, system_prompt, temperature,
             max_tokens, TRUE, <<>>, ok)

\* The user submits a chat message.
SubmitPrompt(text, ok) ==
    /\ ss_keys # {}
    /\ Len(messages) + 2 <= MaxMsgs
    /\ Cycle(api_key_input, MODEL_NAME, system_prompt, temperature,
             max_tokens, FALSE, text, ok)

\* ------------------------------------------- chat input, lines 153-171
\* Fault variant of ChatPrecondition: the elif of line 156 is missing.
ChatPreconditionNoSessionCheck(key, session) ==
    IF key = "" THEN "missing_key_error" ELSE "send"

\* Which branch of the if / elif / else of lines 154-158 is taken.
ChatPrecondition(key, session) ==
    IF key = "" THEN "missing_key_error"
    ELSE IF session = <<>> THEN "not_initialized"
    ELSE "send"

\* Lines 154-157: the message is refused with st.error.
RejectMessage ==
    /\ pc = "chat"
    /\ user_prompt # <<>>
    /\ ChatPrecondition(ss_api_key, chat_session) # "send"
    /\ notices' = notices \cup {ChatPrecondition(ss_api_key, chat_session)}
    /\ pc' = "idle"
    /\ UNCHANGED <<env_api_key, widgets, clear_clicked, user_prompt, ss_keys,
                   stored, messages, chat_session, fields_differ, init_calls,
                   send_calls, full_response_content, displayed, yielded,
                   raised, escaped, cleared, session_history>>

\* Fault variant of SendMessageArgument: the whole transcript is sent.
SendMessageArgumentTranscript(msgs, prompt) ==
    Append(msgs, Message("user", prompt))

\* Line 171: the turns handed to the chat object by send_message, given the
\* transcript before line 160 and the submitted text.
SendMessageArgument(msgs, prompt) == << Message("user", prompt) >>

\* Lines 160-171: the user's message is recorded, then send_message is
\* called with stream=True.
SendMessage ==
    /\ pc = "chat"
    /\ user_prompt # <<>>
    /\ ChatPrecondition(ss_api_key, chat_session) = "send"
    /\ messages' = Append(messages, Message("user", user_prompt))
    /\ full_response_content' = <<>>
    /\ send_calls' = send_calls + 1
    /\ session_history' =
           session_history \o SendMessageArgument(messages, user_prompt)
    /\ pc' = "stream"
    /\ UNCHANGED <<env_api_key, widgets, clear_clicked, user_prompt, ss_keys,
                   stored, chat_session, fields_differ, init_calls, notices,
                   displayed, yielded, raised, escaped, cleared>>

\* --------------------------------------- streaming loop, lines 173-188
\* Fault variant of Accumulate: the chunk is put in front.
AccumulateReversed(content, text) == text \o content

\* Line 178
Accumulate(content, text) == content \o text

\* Line 179: what the placeholder shows while the stream is running.
InProgress(content) == content \o CURSOR

\* A chunk with a text attribute arrives.
ChunkText(f) ==
    /\ pc = "stream"
    /\ Len(yielded) < MaxFrags
    /\ yielded' = Append(yielded, f)
    /\ full_response_content' = Accumulate(full_response_content, f)
    /\ displayed' = Append(displayed,
                           InProgress(Accumulate(full_response_content, f)))
    /\ UNCHANGED <<env_api_key, widgets, clear_clicked, user_prompt, ss_keys,
                   stored, messages, chat_session, pc, fields_differ,
                   init_calls, send_calls, notices, raised, escaped, cleared, session_history>>

\* Lines 185-188: the final render and the assistant's transcript entry.
FinishResponse ==
    /\ displayed' = Append(displayed, full_response_content)
    /\ messages' = Append(messages,
                          Message("assistant", full_response_content))
    /\ session_history' = Append(session_history,
                                 Message("assistant", Concat(yielded)))
    /\ pc' = "idle"

\* The stream is exhausted: the for loop ends normally.
StreamExhausted ==
    /\ pc = "stream"
    /\ FinishResponse
    /\ UNCHANGED <<env_api_key, widgets, clear_clicked, user_prompt, ss_keys,
                   stored, chat_session, fields_differ, init_calls, send_calls,
                   notices, full_response_content, yielded, raised, escaped,
                   cleared>>

\* Fault variant of ChunkUnexpected: the text accumulated so far is dropped.
ChunkUnexpectedDiscarding ==
    /\ pc = "stream"
    /\ notices' = notices \cup {"unexpected_chunk"}
    /\ displayed' = Append(displayed, <<>>)
    /\ messages' = Append(messages, Message("assistant", <<>>))
    /\ pc' = "idle"
    /\ UNCHANGED <<env_api_key, widgets, clear_clicked, user_prompt, ss_keys,
                   stored, chat_session, fields_differ, init_calls, send_calls,
                   full_response_content, yielded, raised, escaped, cleared, session_history>>

\* Lines 180-183: a chunk without a text attribute: st.warning, break.
ChunkUnexpected ==
    /\ pc = "stream"
    /\ notices' = notices \cup {"unexpected_chunk"}
    /\ FinishResponse
    /\ UNCHANGED <<env_api_key, widgets, clear_clicked, user_prompt, ss_keys,
                   stored, chat_session, fields_differ, init_calls, send_calls,
                   full_response_content, yielded, raised, escaped, cleared>>

\* --------------------------------------- except clauses, lines 190-198
\* The except clause that catches an exception of the given class; "" when
\* none does.  The last clause, except Exception, catches every class.
ExceptClause(kind) ==
    CASE kind = "BlockedPromptException" -> "blocked"
      [] kind = "StopCandidateException" -> "stopped"
      [] OTHER -> "error"

\* Fault variant of Placeholder: the messages do not quote the exception.
PlaceholderWithoutDetail(clause, e) ==
    CASE clause = "blocked" ->
           <<"I'm sorry, I can't respond to that due to safety guidelines.">>
      [] clause = "stopped" ->
           <<"My apologies, my response was cut short.">>
      [] OTHER ->
           <<"Sorry, an unexpected error occurred.">>

\* The content of the assistant entry the clause records (lines 192, 195, 198).
Placeholder(clause, e) ==
    CASE clause = "blocked" ->
           <<"I'm sorry, I can't respond to that due to safety guidelines. (Blocked Prompt: ">>
           \o e \o <<")">>
      [] clause = "stopped" ->
           <<"My apologies, my response was cut short. (Stop Candidate: ">>
           \o e \o <<")">>
      [] OTHER ->
           <<"Sorry, an unexpected error occurred: ">> \o e

\* Fault variant of RecordFailure: the placeholder replaces the user's entry.
RecordFailureDroppingUser(msgs, clause, e) ==
    Append(SubSeq(msgs, 1, Len(msgs) - 1),
           Message("assistant", Placeholder(clause, e)))

\* Fault variant of RecordFailure: the clause only reports with st.error.
RecordFailureSkipping(msgs, clause, e) == msgs

\* Fault variant of RecordFailure: the text streamed so far is recorded too.
RecordFailureKeepingPartial(msgs, clause, e) ==
    Append(Append(msgs, Message("assistant", full_response_content)),
           Message("assistant", Placeholder(clause, e)))

\* The transcript after the clause has run.
RecordFailure(msgs, clause, e) ==
    Append(msgs, Message("assistant", Placeholder(clause, e)))

\* Fault variant of RemoteRaises: the message is sent again after a failure.
RemoteRaisesRetrying(kind, e) ==
    /\ pc = "stream"
    /\ raised' = <<kind, e>>
    /\ notices' = notices \cup {ExceptClause(kind)}
    /\ send_calls' = send_calls + 1
    /\ full_response_content' = <<>>
    /\ UNCHANGED <<env_api_key, widgets, clear_clicked, user_prompt, ss_keys,
                   stored, messages, chat_session, pc, fields_differ,
                   init_calls, displayed, yielded, escaped, cleared, session_history>>

\* send_message, or the iteration of its stream, raises.
RemoteRaises(kind, e) ==
    /\ pc = "stream"
    /\ raised' = <<kind, e>>
    /\ IF ExceptClause(kind) # ""
         THEN /\ notices' = notices \cup {ExceptClause(kind)}
              /\ messages' = RecordFailure(messages, ExceptClause(kind), e)
              /\ escaped' = escaped
         ELSE /\ escaped' = TRUE
              /\ UNCHANGED <<notices, messages>>
    /\ pc' = "idle"
    /\ UNCHANGED <<env_api_key, widgets, clear_clicked, user_prompt, ss_keys,
                   stored, chat_session, fields_differ, init_calls, send_calls,
                   full_response_content, displayed, yielded, cleared, session_history>>

\* ------------------------------------------------------- specification
Next ==
    \/ \E ok \in BOOLEAN : PageLoad(ok)
    \/ \E i \in 1..5 : \E v \in WidgetValues(i), ok \in BOOLEAN :
            EditWidgets(i, v, ok)
    \/ \E ok \in BOOLEAN : ClearChatHistory(ok)
    \/ \E text \in Prompts, ok \in BOOLEAN : SubmitPrompt(text, ok)
    \/ RejectMessage
    \/ SendMessage
    \/ \E f \in Frags : ChunkText(f)
    \/ StreamExhausted
    \/ ChunkUnexpected
    \/ \E kind \in Kinds, e \in Descs : RemoteRaises(kind, e)

Spec == Init /\ [][Next]_vars

\* ===================================================================
\* Properties
\* ===================================================================

\* The session was created from the tracked fields now selected.
BoundToCurrentConfiguration ==
    /\ chat_session # <<>>
    /\ chat_session[1].api_key = api_key_input
    /\ chat_session[1].model_name = MODEL_NAME
    /\ chat_session[1].system_instruction = SystemInstructionArg(system_prompt)

\* C1: at the end of a cycle a non-empty Transcript implies a live Session
\* created from the current Configuration.  The code keeps the old
\* Transcript when re-initialization fails or the key is emptied.
C1_TranscriptOnlyWithLiveSession ==
    (pc = "idle" /\ messages # <<>>) => BoundToCurrentConfiguration

\* C2: a cycle in which a tracked field differs from the stored one ends
\* with the old Session discarded (a new one created in its place) and the
\* Transcript empty.  The code empties the Transcript only when the new
\* Session could be created.
C2_TrackedChangeResetsTranscript ==
    (pc = "idle" /\ fields_differ) =>
        /\ messages = <<>>
        /\ (chat_session = <<>> \/ init_calls = 1)

\* C3: Clear empties the Transcript and discards the Session, and the next
\* send with the configuration unchanged and a non-empty key recreates the
\* Session and is exchanged, not rejected.  The code never recreates it.
C3_SendAfterClearIsExchanged ==
    /\ (pc = "idle" /\ clear_clicked) =>
           (messages = <<>> /\ (chat_session = <<>> \/ init_calls = 1))
    /\ (cleared /\ user_prompt # <<>> /\ pc # "chat" /\ ss_api_key # "") =>
           (send_calls = 1 /\ "not_initialized" \notin notices)

\* C4: when a tracked change triggers a session creation that fails, the
\* cycle ends with the Session unset and the Transcript empty.  The code
\* leaves the Transcript as it was.
C4_FailedInitLeavesTranscriptEmpty ==
    (pc = "idle" /\ fields_differ /\ init_calls = 1
                 /\ "init_failed" \in notices) =>
        (chat_session = <<>> /\ messages = <<>>)

\* C5: a cycle in which no tracked field differs from the stored
\* configuration and a live Session exists leaves the Session and the
\* Transcript as they were and does not call initialize_chat_session.
C5_ResubmissionKeepsSessionAndTranscript ==
    [][ ( /\ pc = "idle"
          /\ chat_session # <<>>
          /\ ~clear_clicked'
          /\ api_key_input' = ss_api_key
          /\ MODEL_NAME' = ss_model_name
          /\ system_prompt' = ss_system_prompt )
        => ( /\ chat_session' = chat_session
             /\ messages' = messages
             /\ init_calls' = 0 ) ]_vars

\* C5 witness: a cycle without a tracked change has ended with the live
\* session and a non-empty transcript still in place.
C5_Witness ==
    /\ pc = "idle"
    /\ ~clear_clicked
    /\ user_prompt = <<>>
    /\ ~fields_differ
    /\ init_calls = 0
    /\ chat_session # <<>>
    /\ Len(messages) = 2
    /\ temperature # chat_session[1].generation_config.temperature

\* C6: a live Session is never used for a send while the sampling
\* parameters it was created with differ from the selected ones.  The code
\* does not track temperature and max_tokens.
C6_SendUsesSelectedSampling ==
    pc = "stream" =>
        chat_session[1].generation_config
            = GenerationConfig(temperature, max_tokens)

\* C7: a submitted message that finds no Session, or an empty stored key,
\* leaves the Transcript unchanged, calls nothing remote and reports the
\* missing key or the missing session.
C7_RejectedSendLeavesTranscript ==
    [][ (pc = "chat" /\ (chat_session = <<>> \/ ss_api_key = ""))
        => ( /\ messages' = messages
             /\ send_calls' = 0
             /\ pc' = "idle"
             /\ notices' \cap {"missing_key_error", "not_initialized"} # {}
             /\ yielded' = <<>> ) ]_vars

\* C7 witness: a message was refused for want of a session although the
\* stored key is set.
C7_Witness ==
    /\ pc = "idle"
    /\ user_prompt # <<>>
    /\ ss_api_key # ""
    /\ "not_initialized" \in notices
    /\ send_calls = 0

\* C8: a send whose preconditions pass appends the user's message as the
\* next Transcript entry when send_message is called, and the entry stays
\* at that position through the stream and every way the send can end.
C8_UserMessageRecorded ==
    [][ /\ (pc = "chat" /\ chat_session # <<>> /\ ss_api_key # "")
            => ( /\ messages' = Append(messages, Message("user", user_prompt))
                 /\ send_calls' = 1
                 /\ pc' = "stream" )
        /\ (pc = "stream")
            => ( /\ Last(messages) = Message("user", user_prompt)
                 /\ IsPrefix(messages, messages')
                 /\ pc' = "idle" => Len(messages') = Len(messages) + 1 ) ]_vars

\* C8 witness: the second exchange of a transcript ended in an exception
\* and its user message is the third entry.
C8_Witness ==
    /\ pc = "idle"
    /\ send_calls = 1
    /\ raised # <<>>
    /\ Len(messages) = 4
    /\ messages[3] = Message("user", user_prompt)

\* The send of this cycle consumed its whole stream without an exception and
\* without an unexpected chunk.
NormalCompletion ==
    /\ pc = "idle"
    /\ send_calls = 1
    /\ raised = <<>>
    /\ "unexpected_chunk" \notin notices

\* f1 + ... + fi
PrefixText(i) == Concat(SubSeq(yielded, 1, i))

\* C9 as stated: after a stream f1..fn that completes, the display has been
\* given exactly the prefixes f1, f1+f2, ..., and the assistant entry is
\* the whole concatenation.  The code shows every prefix with a cursor mark.
C9_DisplayShowsBarePrefixes ==
    NormalCompletion =>
        /\ \A i \in 1..Len(yielded) :
               i <= Len(displayed) /\ displayed[i] = PrefixText(i)
        /\ Last(messages) = Message("assistant", Concat(yielded))

\* C9 amended: while the stream runs the display has been given, in order,
\* each prefix f1+...+fi followed by the cursor mark; on completion it is
\* given the whole concatenation without the mark, and one assistant entry
\* with the whole concatenation follows the user's entry.
C9_DisplayShowsPrefixesWithCursor ==
    /\ (pc = "stream" \/ NormalCompletion) =>
           \A i \in 1..Len(yielded) :
               i <= Len(displayed) /\ displayed[i] = PrefixText(i) \o CURSOR
    /\ pc = "stream" => Len(displayed) = Len(yielded)
    /\ NormalCompletion =>
           /\ Len(displayed) = Len(yielded) + 1
           /\ Last(displayed) = Concat(yielded)
           /\ Last(messages) = Message("assistant", Concat(yielded))
           /\ messages[Len(messages) - 1] = Message("user", user_prompt)

\* C9 witness: a stream of two different fragments has completed.
C9_Witness ==
    /\ NormalCompletion
    /\ yielded = << <<"Hel">>, <<"lo">> >>
    /\ Last(messages).content = <<"Hel", "lo">>

\* C10: when the remote call raises, no exception leaves the exchange, the
\* Transcript gains exactly one assistant entry after the user's message,
\* its content quotes the exception, and the Session is untouched.
C10_FailureRecordedAsPlaceholder ==
    [][ (pc = "stream" /\ raised' # <<>>)
        => ( /\ ~escaped'
             /\ pc' = "idle"
             /\ Last(messages) = Message("user", user_prompt)
             /\ Len(messages') = Len(messages) + 1
             /\ IsPrefix(messages, messages')
             /\ Last(messages').role = "assistant"
             /\ Contains(Last(messages').content, raised'[2])
             /\ chat_session' = chat_session ) ]_vars

\* C10 witness: a blocked prompt has been recorded.
C10_Witness ==
    /\ pc = "idle"
    /\ raised = <<"BlockedPromptException", <<"policy X">> >>
    /\ Len(messages) >= 2
    /\ messages[Len(messages) - 1] = Message("user", user_prompt)
    /\ Last(messages).role = "assistant"
    /\ Contains(Last(messages).content, <<"policy X">>)


\* C11: a chunk without text after k well-formed ones ends the loop: nothing
\* more is consumed, a warning is shown, and the assistant entry appended
\* after the user's entry is exactly f1 + ... + fk.
C11_UnexpectedChunkKeepsPartial ==
    [][ ("unexpected_chunk" \notin notices /\ "unexpected_chunk" \in notices')
        => ( /\ pc = "stream"
             /\ pc' = "idle"
             /\ yielded' = yielded
             /\ raised' = <<>>
             /\ Last(messages) = Message("user", user_prompt)
             /\ messages' = Append(messages,
                                   Message("assistant", Concat(yielded)))
             /\ Last(displayed') = Concat(yielded) ) ]_vars

\* C11 witness: the loop was left after two fragments and their
\* concatenation is the assistant entry.
C11_Witness ==
    /\ pc = "idle"
    /\ "unexpected_chunk" \in notices
    /\ yielded = << <<"lo">>, <<"Hel">> >>
    /\ Last(messages) = Message("assistant", <<"lo", "Hel">>)


\* C12: a cycle whose API key field is empty ends without a Session and has
\* reported the missing key; a Session is live only while the stored key is
\* non-empty.  The code reports only inside the re-initialization block,
\* and there only when GOOGLE_API_KEY is unset.
C12_EmptyKeyReported ==
    /\ (pc = "idle" /\ ss_keys # {} /\ api_key_input = "") =>
           /\ chat_session = <<>>
           /\ notices \cap {"missing_key_warning", "missing_key_error"} # {}
    /\ chat_session # <<>> => ss_api_key # ""


\* C13: send_message is called at most once per send, a failure ends the
\* exchange with the failure recorded as an assistant entry, and nothing is
\* sent again while a failure is on record.
C13_NoRetry ==
    [][ /\ send_calls' <= 1
        /\ (raised # <<>> \/ raised' # <<>>) => send_calls' <= send_calls
        /\ (pc = "stream" /\ raised' # <<>>)
            => ( /\ pc' = "idle"
                 /\ Len(messages') = Len(messages) + 1
                 /\ Last(messages').role = "assistant"
                 /\ Contains(Last(messages').content, raised'[2]) ) ]_vars

\* C13 witness: a send was cut short after one fragment and was called once.
C13_Witness ==
    /\ pc = "idle"
    /\ send_calls = 1
    /\ raised # <<>>
    /\ raised[1] = "StopCandidateException"
    /\ Len(yielded) = 1
    /\ Last(messages).role = "assistant"


\* C14: a cycle in which a tracked field differs and the session creation
\* succeeds ends with a live Session created from the new configuration and
\* an empty Transcript.
C14_SuccessfulRebindEmptiesTranscript ==
    [][ (pc = "idle" /\ fields_differ' /\ init_calls' = 1
                     /\ chat_session' # <<>>)
        => ( /\ messages' = <<>>
             /\ "toast_initialized" \in notices'
             /\ chat_session'[1].api_key = api_key_input'
             /\ chat_session'[1].model_name = MODEL_NAME'
             /\ chat_session'[1].system_instruction
                    = SystemInstructionArg(system_prompt')
             /\ chat_session'[1].generation_config
                    = GenerationConfig(temperature', max_tokens') ) ]_vars

\* C14 witness: a rebind to the other model with a persona has succeeded.
C14_Witness ==
    /\ pc = "idle"
    /\ fields_differ
    /\ init_calls = 1
    /\ "toast_initialized" \in notices
    /\ chat_session # <<>>
    /\ chat_session[1].model_name = "gemini-1.0-pro"
    /\ chat_session[1].system_instruction = "Sparky"
    /\ messages = <<>>


\* C15: across every single operation the new Transcript either extends
\* the old one, whose entries keep role, content and position, or is empty.
C15_TranscriptAppendOnly ==
    [][ IsPrefix(messages, messages') \/ messages' = <<>> ]_vars

\* C15 witness: a transcript of two exchanges with different answers.
C15_Witness ==
    /\ pc = "idle"
    /\ Len(messages) = 4
    /\ messages[2].content = <<"Hel", "lo">>
    /\ messages[4].content # messages[2].content
    /\ messages[1].role = "user"


\* A transcript entry written by an except clause, not returned by the
\* remote service.
IsPlaceholderEntry(m) ==
    /\ m.role = "assistant"
    /\ \E kind \in Kinds, e \in Descs :
           m.content = Placeholder(ExceptClause(kind), e)

NotPlaceholderEntry(m) == ~IsPlaceholderEntry(m)

C17_RolesAlternate ==
    /\ pc \in {"idle", "chat"} =>
           /\ Len(messages) % 2 = 0
           /\ \A i \in 1..Len(messages) :
                  messages[i].role = IF i % 2 = 1 THEN "user" ELSE "assistant"
    /\ pc = "stream" =>
           /\ Len(messages) % 2 = 1
           /\ Last(messages).role = "user"

\* C17 witness: a failed exchange followed by one cut by an unexpected chunk.
C17_Witness ==
    /\ pc = "idle"
    /\ Len(messages) = 4
    /\ IsPlaceholderEntry(messages[2])
    /\ "unexpected_chunk" \in notices
    /\ messages[3].role = "user"
    /\ messages[4].role = "assistant"


\* The widget values of the cycle that starts differ from the stored
\* configuration in a tracked field.
TrackedChange ==
    \/ api_key_input' # ss_api_key
    \/ MODEL_NAME' # ss_model_name
    \/ system_prompt' # ss_system_prompt

C19_PartialTextNotRecorded ==
    [][ (pc = "stream" /\ raised' # <<>> /\ yielded # <<>>)
        => ( /\ displayed # <<>>
             /\ Len(messages') = Len(messages) + 1
             /\ IsPrefix(messages, messages')
             /\ IsPlaceholderEntry(Last(messages'))
             /\ Last(messages').content # full_response_content
             /\ \A f \in Frags : ~Contains(Last(messages').content, f)
             /\ \A f \in Frags : ~Contains(Last(messages).content, f) ) ]_vars

\* C19 witness: an unexpected error after two fragments had been shown.
C19_Witness ==
    /\ pc = "idle"
    /\ raised # <<>>
    /\ raised[1] = "Exception"
    /\ Len(yielded) = 2
    /\ Len(displayed) = 2
    /\ IsPlaceholderEntry(Last(messages))

====
